---- MODULE Spec2Model ----
(***************************************************************************)
(* TokenActivity::from_transaction and TokenActivity::from_parsed_event of *)
(* rust/processor/src/models/token_models/token_activities.rs, applied to  *)
(* a stream of transactions.                                               *)
(*                                                                         *)
(* Option<T> is a sequence of length 0 (None) or 1 (Some).  A string that  *)
(* the code transforms (an account address) is a sequence of characters;   *)
(* a string it only copies is a TLA+ string.  A panic is a result of kind  *)
(* "Panic": the call returns nothing and the worker stops.                 *)
(***************************************************************************)
EXTENDS Integers, Sequences, FiniteSets, TLC

VARIABLES source, transaction, result, output, processed

vars == <<source, transaction, result, output, processed>>

(* ------------------------------ bounds -------------------------------- *)

\* longest event list of a transaction that is normalized alone
MaxEvents == 2
\* longest event list of a transaction inside a multi-transaction stream
MaxStreamEvents == 1
\* longest stream of transactions
MaxTxns == 2
\* hex digits of a canonical address (64 in the deployed helper)
AddrHexLen == 4

(* ------------------------------ Option -------------------------------- *)

None == <<>>
Some(x) == <<x>>
unwrap(o) == o[1]

(* ------------------- utils::util (outside this file) ------------------ *)

RECURSIVE trim_start_matches_0x(_)
trim_start_matches_0x(s) ==
    IF Len(s) >= 2 /\ s[1] = "0" /\ s[2] = "x"
    THEN trim_start_matches_0x(SubSeq(s, 3, Len(s)))
    ELSE s

RECURSIVE pad_zero_left(_, _)
pad_zero_left(s, n) ==
    IF Len(s) >= n THEN s ELSE pad_zero_left(<<"0">> \o s, n)

\* the one canonical text of an address: 0x, then the digits left-padded
standardize_address(handle) ==
    <<"0", "x">> \o pad_zero_left(trim_start_matches_0x(handle), AddrHexLen)

\* the timestamp conversion is not interpreted: only its arguments matter
parse_timestamp(ts, version) ==
    [fn |-> "parse_timestamp", ts |-> ts, version |-> version]

(* --------------- token_utils (outside this file) ---------------------- *)

\* TokenDataIdType accessors, not interpreted
to_hash(td) == [fn |-> "to_hash", of |-> td]
get_collection_data_id_hash(td) == [fn |-> "get_collection_data_id_hash", of |-> td]
get_creator_address(td) == [fn |-> "get_creator_address", of |-> td]
get_collection_trunc(td) == [fn |-> "get_collection_trunc", of |-> td]
get_name_trunc(td) == [fn |-> "get_name_trunc", of |-> td]

\* the declared recipient of an offer, cancel-offer or claim event
get_to_address(inner) == standardize_address(inner.to_address)

MintTag == "0x3::token::MintTokenEvent"
BurnTag == "0x3::token::BurnTokenEvent"
MutateTag == "0x3::token::MutateTokenPropertyMapEvent"
WithdrawTag == "0x3::token::WithdrawEvent"
DepositTag == "0x3::token::DepositEvent"
OfferTag == "0x3::token_transfers::TokenOfferEvent"
CancelTag == "0x3::token_transfers::TokenCancelOfferEvent"
ClaimTag == "0x3::token_transfers::TokenClaimEvent"

\* the static table from type tag to TokenEvent variant
VariantOf(type_str) ==
    CASE type_str = MintTag -> Some("MintTokenEvent")
      [] type_str = BurnTag -> Some("BurnTokenEvent")
      [] type_str = MutateTag -> Some("MutateTokenPropertyMapEvent")
      [] type_str = WithdrawTag -> Some("WithdrawTokenEvent")
      [] type_str = DepositTag -> Some("DepositTokenEvent")
      [] type_str = OfferTag -> Some("OfferTokenEvent")
      [] type_str = CancelTag -> Some("CancelTokenOfferEvent")
      [] type_str = ClaimTag -> Some("ClaimTokenEvent")
      [] OTHER -> None

IsRecord(x, fields) == DOMAIN x = fields

IsTokenDataId(x) == IsRecord(x, {"creator", "collection", "name"})

IsTokenId(x) ==
    /\ IsRecord(x, {"token_data_id", "property_version"})
    /\ IsTokenDataId(x.token_data_id)

\* whether the payload has the shape the variant's type deserializes from
Deserializes(variant, data) ==
    CASE variant = "MintTokenEvent" ->
            IsRecord(data, {"amount", "id"}) /\ IsTokenDataId(data.id)
      [] variant \in {"BurnTokenEvent", "WithdrawTokenEvent", "DepositTokenEvent"} ->
            IsRecord(data, {"amount", "id"}) /\ IsTokenId(data.id)
      [] variant = "MutateTokenPropertyMapEvent" ->
            /\ IsRecord(data, {"old_id", "new_id", "keys", "values", "types"})
            /\ IsTokenId(data.old_id)
            /\ IsTokenId(data.new_id)
      [] OTHER ->
            IsRecord(data, {"amount", "to_address", "token_id"}) /\ IsTokenId(data.token_id)

\* TokenEvent::from_event: Ok(None) for a tag outside the table, Ok(Some(event))
\* for a tag of the table whose payload deserializes, Err otherwise
from_event(type_str, data, txn_version) ==
    IF VariantOf(type_str) = None
    THEN [kind |-> "Ok", val |-> None]
    ELSE IF Deserializes(unwrap(VariantOf(type_str)), data)
         THEN [kind |-> "Ok",
               val |-> Some([variant |-> unwrap(VariantOf(type_str)), inner |-> data])]
         ELSE [kind |-> "Err", val |-> None]

(* ------------------------- token_activities.rs ------------------------ *)

\* `x as i64` of a u64 or usize: the identity below 2^63, where every value the
\* model draws lies, and one-to-one on all 64 bits, so it merges no two keys
as_i64(x) == x

PanicResult == [kind |-> "Panic", val |-> <<>>]
OkResult(v) == [kind |-> "Ok", val |-> v]
NotCalled == [kind |-> "NotCalled", val |-> <<>>]

\* the match of from_parsed_event: the fields that depend on the variant
token_activity_helper(token_event, event_account_address) ==
    LET inner == token_event.inner
        variant == token_event.variant
    IN CASE variant = "MintTokenEvent" ->
              [token_data_id |-> inner.id,
               property_version |-> 0,
               from_address |-> Some(event_account_address),
               to_address |-> None,
               token_amount |-> inner.amount,
               coin_type |-> None,
               coin_amount |-> None]
         [] variant = "BurnTokenEvent" ->
              [token_data_id |-> inner.id.token_data_id,
               property_version |-> inner.id.property_version,
               from_address |-> Some(event_account_address),
               to_address |-> None,
               token_amount |-> inner.amount,
               coin_type |-> None,
               coin_amount |-> None]
         [] variant = "MutateTokenPropertyMapEvent" ->
              [token_data_id |-> inner.new_id.token_data_id,
               property_version |-> inner.new_id.property_version,
               from_address |-> Some(event_account_address),
               to_address |-> None,
               token_amount |-> 0,
               coin_type |-> None,
               coin_amount |-> None]
         [] variant = "WithdrawTokenEvent" ->
              [token_data_id |-> inner.id.token_data_id,
               property_version |-> inner.id.property_version,
               from_address |-> Some(event_account_address),
               to_address |-> None,
               token_amount |-> inner.amount,
               coin_type |-> None,
               coin_amount |-> None]
         [] variant = "DepositTokenEvent" ->
              [token_data_id |-> inner.id.token_data_id,
               property_version |-> inner.id.property_version,
               from_address |-> None,
               to_address |-> Some(standardize_address(event_account_address)),
               token_amount |-> inner.amount,
               coin_type |-> None,
               coin_amount |-> None]
         [] variant = "OfferTokenEvent" ->
              [token_data_id |-> inner.token_id.token_data_id,
               property_version |-> inner.token_id.property_version,
               from_address |-> Some(event_account_address),
               to_address |-> Some(get_to_address(inner)),
               token_amount |-> inner.amount,
               coin_type |-> None,
               coin_amount |-> None]
         [] variant = "CancelTokenOfferEvent" ->
              [token_data_id |-> inner.token_id.token_data_id,
               property_version |-> inner.token_id.property_version,
               from_address |-> Some(event_account_address),
               to_address |-> Some(get_to_address(inner)),
               token_amount |-> inner.amount,
               coin_type |-> None,
               coin_amount |-> None]
         [] variant = "ClaimTokenEvent" ->
              [token_data_id |-> inner.token_id.token_data_id,
               property_version |-> inner.token_id.property_version,
               from_address |-> Some(event_account_address),
               to_address |-> Some(get_to_address(inner)),
               token_amount |-> inner.amount,
               coin_type |-> None,
               coin_amount |-> None]

\* the record built at the end of from_parsed_event
build_activity(event_type, event_account_address, event_creation_number, event_sequence_number, helper, txn_version, txn_timestamp, event_index) ==
    [transaction_version |-> txn_version,
     event_account_address |-> event_account_address,
     event_creation_number |-> event_creation_number,
     event_sequence_number |-> event_sequence_number,
     token_data_id_hash |-> to_hash(helper.token_data_id),
     property_version |-> helper.property_version,
     creator_address |-> get_creator_address(helper.token_data_id),
     collection_name |-> get_collection_trunc(helper.token_data_id),
     name |-> get_name_trunc(helper.token_data_id),
     transfer_type |-> event_type,
     from_address |-> helper.from_address,
     to_address |-> helper.to_address,
     token_amount |-> helper.token_amount,
     coin_type |-> helper.coin_type,
     coin_amount |-> helper.coin_amount,
     collection_data_id_hash |-> get_collection_data_id_hash(helper.token_data_id),
     transaction_timestamp |-> txn_timestamp,
     event_index |-> Some(event_index)]

\* from_parsed_event with the sequence number read from the key's creation number
from_parsed_event_seq_from_creation(event_type, event, token_event, txn_version, txn_timestamp, event_index) ==
    IF event.key = None
    THEN PanicResult
    ELSE LET event_account_address == standardize_address(unwrap(event.key).account_address)
             event_creation_number == as_i64(unwrap(event.key).creation_number)
             event_sequence_number == as_i64(unwrap(event.key).creation_number)
         IN OkResult(build_activity(event_type, event_account_address,
                                    event_creation_number, event_sequence_number,
                                    token_activity_helper(token_event, event_account_address),
                                    txn_version, txn_timestamp, event_index))

\* from_parsed_event with the deposit arm copied from the withdraw arm
from_parsed_event_deposit_as_withdraw(event_type, event, token_event, txn_version, txn_timestamp, event_index) ==
    IF event.key = None
    THEN PanicResult
    ELSE LET event_account_address == standardize_address(unwrap(event.key).account_address)
             helper == token_activity_helper(token_event, event_account_address)
         IN OkResult(build_activity(event_type, event_account_address,
                                    as_i64(unwrap(event.key).creation_number),
                                    as_i64(event.sequence_number),
                                    IF token_event.variant = "DepositTokenEvent"
                                    THEN [helper EXCEPT !.from_address = Some(event_account_address),
                                                        !.to_address = None]
                                    ELSE helper,
                                    txn_version, txn_timestamp, event_index))

\* from_parsed_event with the mutate arm reading old_id for the property version
from_parsed_event_mutate_old_id(event_type, event, token_event, txn_version, txn_timestamp, event_index) ==
    IF event.key = None
    THEN PanicResult
    ELSE LET event_account_address == standardize_address(unwrap(event.key).account_address)
             helper == token_activity_helper(token_event, event_account_address)
         IN OkResult(build_activity(event_type, event_account_address,
                                    as_i64(unwrap(event.key).creation_number),
                                    as_i64(event.sequence_number),
                                    IF token_event.variant = "MutateTokenPropertyMapEvent"
                                    THEN [helper EXCEPT !.property_version =
                                                            token_event.inner.old_id.property_version]
                                    ELSE helper,
                                    txn_version, txn_timestamp, event_index))

\* from_parsed_event with the variant's name as the transfer type
from_parsed_event_variant_name(event_type, event, token_event, txn_version, txn_timestamp, event_index) ==
    IF event.key = None
    THEN PanicResult
    ELSE LET event_account_address == standardize_address(unwrap(event.key).account_address)
         IN OkResult(build_activity(token_event.variant, event_account_address,
                                    as_i64(unwrap(event.key).creation_number),
                                    as_i64(event.sequence_number),
                                    token_activity_helper(token_event, event_account_address),
                                    txn_version, txn_timestamp, event_index))

\* event.key.as_ref().unwrap() panics on an event without a key
from_parsed_event(event_type, event, token_event, txn_version, txn_timestamp, event_index) ==
    IF event.key = None
    THEN PanicResult
    ELSE LET event_account_address == standardize_address(unwrap(event.key).account_address)
             event_creation_number == as_i64(unwrap(event.key).creation_number)
             event_sequence_number == as_i64(event.sequence_number)
         IN OkResult(build_activity(event_type, event_account_address,
                                    event_creation_number, event_sequence_number,
                                    token_activity_helper(token_event, event_account_address),
                                    txn_version, txn_timestamp, event_index))

\* what the loop body does once the event is decoded: the timestamp is
\* unwrapped, the Activity built and pushed
push_activity(txn, event, token_event, index, token_activities) ==
    IF txn.timestamp = None
    THEN PanicResult
    ELSE LET txn_version == as_i64(txn.version)
             activity == from_parsed_event(
                             event.type_str, event, token_event, txn_version,
                             parse_timestamp(unwrap(txn.timestamp), txn_version),
                             as_i64(index))
         IN IF activity.kind = "Panic"
            THEN PanicResult
            ELSE OkResult(Append(token_activities, activity.val))

\* the loop body with unwrap_or(None) in place of unwrap()
event_step_skip_malformed(txn, event, index, token_activities) ==
    LET decoded == from_event(event.type_str, event.data, as_i64(txn.version))
    IN IF decoded.kind = "Err" \/ decoded.val = None
       THEN OkResult(token_activities)
       ELSE push_activity(txn, event, unwrap(decoded.val), index, token_activities)

\* the loop body with a second unwrap() in place of `if let Some`
event_step_unwrap_option(txn, event, index, token_activities) ==
    LET decoded == from_event(event.type_str, event.data, as_i64(txn.version))
    IN IF decoded.kind = "Err" \/ decoded.val = None
       THEN PanicResult
       ELSE push_activity(txn, event, unwrap(decoded.val), index, token_activities)

\* the loop body with insert(0, ..) in place of push
event_step_push_front(txn, event, index, token_activities) ==
    LET decoded == from_event(event.type_str, event.data, as_i64(txn.version))
    IN IF decoded.kind = "Err"
       THEN PanicResult
       ELSE IF decoded.val = None
       THEN OkResult(token_activities)
       ELSE LET pushed == push_activity(txn, event, unwrap(decoded.val), index, <<>>)
            IN IF pushed.kind = "Panic"
               THEN PanicResult
               ELSE OkResult(pushed.val \o token_activities)

\* the loop body counting the Activities built instead of the events seen
event_step_index_of_output(txn, event, index, token_activities) ==
    LET decoded == from_event(event.type_str, event.data, as_i64(txn.version))
    IN IF decoded.kind = "Err"
       THEN PanicResult
       ELSE IF decoded.val = None
       THEN OkResult(token_activities)
       ELSE push_activity(txn, event, unwrap(decoded.val), Len(token_activities),
                          token_activities)

\* one iteration of the loop of from_transaction, at position index (0-based)
\* with the vector built so far: the vector after it, or a panic
event_step(txn, event, index, token_activities) ==
    LET decoded == from_event(event.type_str, event.data, as_i64(txn.version))
    IN IF decoded.kind = "Err"
       THEN PanicResult
       ELSE IF decoded.val = None
       THEN OkResult(token_activities)
       ELSE push_activity(txn, event, unwrap(decoded.val), index, token_activities)

\* the loop of from_transaction from position index on; a panic drops the vector
RECURSIVE for_events(_, _, _, _)
for_events(txn, events, index, token_activities) ==
    IF index >= Len(events)
    THEN OkResult(token_activities)
    ELSE LET step == event_step(txn, events[index + 1], index, token_activities)
         IN IF step.kind = "Panic"
            THEN PanicResult
            ELSE for_events(txn, events, index + 1, step.val)

\* from_transaction with an else branch that panics on a non-user payload
from_transaction_non_user_panics(txn) ==
    IF txn.txn_data = None
    THEN PanicResult
    ELSE IF unwrap(txn.txn_data).kind = "User"
         THEN for_events(txn, unwrap(txn.txn_data).events, 0, <<>>)
         ELSE PanicResult

\* from_transaction with the timestamp unwrapped before the loop
from_transaction_timestamp_first(txn) ==
    IF txn.txn_data = None
    THEN PanicResult
    ELSE IF unwrap(txn.txn_data).kind = "User"
         THEN IF txn.timestamp = None
              THEN PanicResult
              ELSE for_events(txn, unwrap(txn.txn_data).events, 0, <<>>)
         ELSE OkResult(<<>>)

from_transaction(txn) ==
    IF txn.txn_data = None
    THEN PanicResult
    ELSE IF unwrap(txn.txn_data).kind = "User"
         THEN for_events(txn, unwrap(txn.txn_data).events, 0, <<>>)
         ELSE OkResult(<<>>)

(* ------------------------------ inputs -------------------------------- *)

Addr1 == <<"0", "x", "1">>
\* the same account as Addr1, written with a leading zero
Addr1Long == <<"0", "x", "0", "1">>
\* an address written without its 0x prefix
AddrBare == <<"a", "b">>
Addr2 == <<"0", "x", "2">>

TokenData == [creator |-> "0xabc", collection |-> "Swords", name |-> "Excalibur"]
TokenIdOf(pv) == [token_data_id |-> TokenData, property_version |-> pv]

MintData == [id |-> TokenData, amount |-> 5]
IdAmountData == [id |-> TokenIdOf(2), amount |-> 3]
MutateData ==
    [old_id |-> TokenIdOf(1), new_id |-> TokenIdOf(2),
     keys |-> <<>>, values |-> <<>>, types |-> <<>>]
OfferData == [token_id |-> TokenIdOf(2), to_address |-> Addr2, amount |-> 4]
GarbageData == [malformed |-> "payload of no token event"]

CoinTag == "0x1::coin::WithdrawEvent"
\* the mint tag with its address written differently: not a tag of the table
NearMintTag == "0x03::token::MintTokenEvent"

EventKey(address, creation_number) ==
    Some([account_address |-> address, creation_number |-> creation_number])

Event(type_str, data, key, sequence_number) ==
    [type_str |-> type_str, data |-> data, key |-> key,
     sequence_number |-> sequence_number]

\* one well-formed event per variant, all under the same key
VariantEvents ==
    {Event(MintTag, MintData, EventKey(Addr1, 0), 0),
     Event(BurnTag, IdAmountData, EventKey(Addr1, 0), 0),
     Event(MutateTag, MutateData, EventKey(Addr1, 0), 0),
     Event(WithdrawTag, IdAmountData, EventKey(Addr1, 0), 0),
     Event(DepositTag, IdAmountData, EventKey(Addr1, 0), 0),
     Event(OfferTag, OfferData, EventKey(Addr1, 0), 0),
     Event(CancelTag, OfferData, EventKey(Addr1, 0), 0),
     Event(ClaimTag, OfferData, EventKey(Addr1, 0), 0)}

\* a tag of the table over a payload of another shape
MalformedEvents ==
    {Event(MintTag, GarbageData, EventKey(Addr1, 0), 0),
     Event(BurnTag, MintData, EventKey(Addr1, 0), 0),
     Event(OfferTag, IdAmountData, EventKey(Addr1, 0), 0)}

UnrecognizedEvents ==
    {Event(CoinTag, GarbageData, None, 0),
     Event(NearMintTag, MintData, EventKey(Addr1, 0), 0)}

\* no key; the key of VariantEvents in another spelling; keys that differ from
\* it in the address, the creation number or the sequence number alone
KeyEvents ==
    {Event(MintTag, MintData, None, 0),
     Event(DepositTag, IdAmountData, EventKey(Addr1Long, 0), 0),
     Event(DepositTag, IdAmountData, EventKey(AddrBare, 0), 0),
     Event(WithdrawTag, IdAmountData, EventKey(Addr1, 1), 0),
     Event(BurnTag, IdAmountData, EventKey(Addr1, 0), 1)}

Events == VariantEvents \cup MalformedEvents \cup UnrecognizedEvents \cup KeyEvents

StreamEvents ==
    {Event(MintTag, MintData, EventKey(Addr1, 0), 0),
     Event(DepositTag, IdAmountData, EventKey(Addr1Long, 0), 0),
     Event(MintTag, MintData, EventKey(Addr1, 0), 1),
     Event(MintTag, GarbageData, EventKey(Addr1, 0), 0)}

SeqsUpTo(S, n) == UNION {[1..k -> S] : k \in 0..n}

Timestamp == [seconds |-> 1000, nanos |-> 0]

Transaction(version, timestamp, txn_data) ==
    [version |-> version, timestamp |-> timestamp, txn_data |-> txn_data]

TxnData(kind, events) == Some([kind |-> kind, events |-> events])

NonUserKinds == {"Genesis", "BlockMetadata", "StateCheckpoint"}

\* the transactions normalized alone
Transactions ==
    {Transaction(1, ts, TxnData("User", es)) :
        ts \in {None, Some(Timestamp)}, es \in SeqsUpTo(Events, MaxEvents)}
    \cup {Transaction(1, ts, None) : ts \in {None, Some(Timestamp)}}
    \cup {Transaction(1, ts, TxnData(k, es)) :
            ts \in {None, Some(Timestamp)}, k \in NonUserKinds,
            es \in SeqsUpTo({Event(MintTag, MintData, EventKey(Addr1, 0), 0)}, 1)}

\* streams of user transactions, the k-th of version k
StreamOf(body) ==
    [k \in 1..Len(body) |-> Transaction(k, Some(Timestamp), TxnData("User", body[k]))]

Streams ==
    {StreamOf(body) :
        body \in UNION {[1..m -> SeqsUpTo(StreamEvents, MaxStreamEvents)] : m \in 1..MaxTxns}}

InputStreams == {<<t>> : t \in Transactions} \cup Streams

(* ------------------------------ actions ------------------------------- *)

Init ==
    /\ \E stream \in InputStreams :
          /\ transaction = Head(stream)
          /\ source = Tail(stream)
    /\ result = NotCalled
    /\ output = <<>>
    /\ processed = <<>>

\* the worker normalizes the transaction it holds; a panic ends the worker
Normalize ==
    /\ result.kind = "NotCalled"
    /\ LET r == from_transaction(transaction)
       IN /\ result' = r
          /\ output' = IF r.kind = "Ok" THEN output \o r.val ELSE output
    /\ processed' = Append(processed, transaction)
    /\ UNCHANGED <<source, transaction>>

\* after a normal return the worker takes the next transaction of the stream
Fetch ==
    /\ result.kind = "Ok"
    /\ source # <<>>
    /\ transaction' = Head(source)
    /\ source' = Tail(source)
    /\ result' = NotCalled
    /\ UNCHANGED <<output, processed>>

Next == Normalize \/ Fetch

Spec == Init /\ [][Next]_vars

(* ------------------------ vocabulary of the claims -------------------- *)

Called == result.kind # "NotCalled"

IsUser(txn) == txn.txn_data # None /\ unwrap(txn.txn_data).kind = "User"

EventsOf(txn) == unwrap(txn.txn_data).events

Recognized(event) == VariantOf(event.type_str) # None

Decodable(event) ==
    Recognized(event) /\ Deserializes(unwrap(VariantOf(event.type_str)), event.data)

RecognizedAt(es) == {i \in 1..Len(es) : Recognized(es[i])}

\* the position in es of its j-th recognized event
NthRecognized(es, j) ==
    CHOOSE i \in RecognizedAt(es) : Cardinality({k \in RecognizedAt(es) : k <= i}) = j

CanonicalKey(event) ==
    <<standardize_address(unwrap(event.key).account_address),
      unwrap(event.key).creation_number, event.sequence_number>>

\* the event an Activity of the current result says it comes from
Origin(activity) == EventsOf(transaction)[unwrap(activity.event_index) + 1]

VariantAt(activity) == unwrap(VariantOf(Origin(activity).type_str))

Returned == Called /\ IsUser(transaction) /\ result.kind = "Ok"

KeyOf(activity) ==
    <<activity.transaction_version, activity.event_account_address,
      activity.event_creation_number, activity.event_sequence_number>>

(* -------------------------------- C1 ---------------------------------- *)

\* C1 as stated: from_transaction panics on every transaction without a
\* user-transaction payload, the payload absent or of a non-user kind.
C1_PanicsWithoutUserPayload ==
    Called /\ ~IsUser(transaction) => result.kind = "Panic"

\* C1 as amended: from_transaction panics when the transaction carries no
\* payload at all; when the payload is of a non-user kind it returns the
\* empty sequence, whatever events that payload holds.
C1_PanicsOnlyWithoutPayload ==
    Called =>
        /\ transaction.txn_data = None => result = PanicResult
        /\ transaction.txn_data # None /\ ~IsUser(transaction) => result = OkResult(<<>>)

C1_Witness ==
    /\ Called
    /\ transaction.txn_data = None
    /\ transaction.timestamp # None
    /\ result = PanicResult

(* -------------------------------- C2 ---------------------------------- *)

\* C2: a user transaction holding an event with a tag of the table whose
\* payload does not deserialize makes from_transaction panic: nothing is
\* returned and nothing of that transaction reaches the output, the Activities
\* of its earlier events included.
C2_MalformedEventFailsWhole ==
    /\ Called
    /\ IsUser(transaction)
    /\ \E i \in 1..Len(EventsOf(transaction)) :
          Recognized(EventsOf(transaction)[i]) /\ ~Decodable(EventsOf(transaction)[i])
    => /\ result = PanicResult
       /\ \A j \in 1..Len(output) :
             output[j].transaction_version # transaction.version

C2_Witness ==
    /\ Called
    /\ IsUser(transaction)
    /\ transaction.timestamp # None
    /\ Len(EventsOf(transaction)) = 2
    /\ Decodable(EventsOf(transaction)[1])
    /\ EventsOf(transaction)[1].key # None
    /\ Recognized(EventsOf(transaction)[2])
    /\ ~Decodable(EventsOf(transaction)[2])
    /\ result = PanicResult

(* -------------------------------- C3 ---------------------------------- *)

\* C3 as stated: from_transaction panics on every user transaction without a
\* timestamp, whatever its event list holds.
C3_PanicsWithoutTimestamp ==
    Called /\ IsUser(transaction) /\ transaction.timestamp = None
    => result.kind = "Panic"

\* C3 as amended: on a user transaction without a timestamp from_transaction
\* panics exactly when the event list holds an event with a tag of the table;
\* when it holds none (the empty list included) it returns the empty sequence.
C3_PanicsWithoutTimestampOnTokenEvent ==
    Called /\ IsUser(transaction) /\ transaction.timestamp = None
    => IF RecognizedAt(EventsOf(transaction)) # {}
       THEN result = PanicResult
       ELSE result = OkResult(<<>>)

C3_Witness ==
    /\ Called
    /\ IsUser(transaction)
    /\ transaction.timestamp = None
    /\ \A i \in 1..Len(EventsOf(transaction)) :
          Decodable(EventsOf(transaction)[i]) /\ EventsOf(transaction)[i].key # None
    /\ Len(EventsOf(transaction)) > 0
    /\ result = PanicResult

(* -------------------------------- C4 ---------------------------------- *)

\* C4: on a user transaction whose event list is empty or holds only events
\* with tags outside the table, from_transaction returns the empty sequence
\* and does not panic.
C4_NoTokenEventReturnsEmpty ==
    Called /\ IsUser(transaction) /\ RecognizedAt(EventsOf(transaction)) = {}
    => result = OkResult(<<>>)

C4_Witness ==
    /\ Called
    /\ IsUser(transaction)
    /\ Len(EventsOf(transaction)) = 2
    /\ RecognizedAt(EventsOf(transaction)) = {}
    /\ EventsOf(transaction)[1] # EventsOf(transaction)[2]
    /\ result = OkResult(<<>>)

(* -------------------------------- C5 ---------------------------------- *)

\* the j-th Activity of the result carries the provenance of the j-th
\* recognized event, for every j, and there is nothing else in the result
OnePerRecognizedInOrder ==
    LET es == EventsOf(transaction)
    IN /\ result.kind = "Ok"
       /\ Len(result.val) = Cardinality(RecognizedAt(es))
       /\ \A j \in 1..Len(result.val) :
             LET e == es[NthRecognized(es, j)]
             IN /\ result.val[j].transfer_type = e.type_str
                /\ e.key # None
                /\ KeyOf(result.val[j]) = <<transaction.version>> \o CanonicalKey(e)

\* C5 as stated: on a user transaction in which every recognized event
\* decodes, the result holds one Activity per recognized event, none for the
\* others, in the order of the events.
C5_OnePerRecognizedWhenDecodable ==
    /\ Called
    /\ IsUser(transaction)
    /\ \A i \in RecognizedAt(EventsOf(transaction)) : Decodable(EventsOf(transaction)[i])
    => OnePerRecognizedInOrder

\* C5 as amended: on a user transaction that has a timestamp and in which
\* every recognized event decodes and carries its event key, the result holds
\* one Activity per recognized event, none for the others, in the order of
\* the events.
C5_OnePerRecognizedWhenComplete ==
    /\ Called
    /\ IsUser(transaction)
    /\ \A i \in RecognizedAt(EventsOf(transaction)) :
          Decodable(EventsOf(transaction)[i]) /\ EventsOf(transaction)[i].key # None
    /\ transaction.timestamp # None
    => OnePerRecognizedInOrder

C5_Witness ==
    /\ Called
    /\ IsUser(transaction)
    /\ Len(EventsOf(transaction)) = 2
    /\ RecognizedAt(EventsOf(transaction)) = {1, 2}
    /\ EventsOf(transaction)[1].type_str # EventsOf(transaction)[2].type_str
    /\ result.kind = "Ok"
    /\ Len(result.val) = 2
    /\ result.val[1].transfer_type = EventsOf(transaction)[1].type_str

(* -------------------------------- C6 ---------------------------------- *)

\* C6: every Activity of a result has event_index set to the 0-based position
\* of its event in the transaction's list of k events: the indices are
\* strictly increasing, lie in 0..k-1, and the positions that are missing are
\* those of the unrecognized events.
C6_EventIndexIsPosition ==
    Returned =>
        LET es == EventsOf(transaction)
            val == result.val
        IN /\ \A j \in 1..Len(val) :
                 /\ val[j].event_index # None
                 /\ unwrap(val[j].event_index) \in 0..(Len(es) - 1)
                 /\ val[j].transfer_type = es[unwrap(val[j].event_index) + 1].type_str
                 /\ val[j].event_sequence_number =
                       es[unwrap(val[j].event_index) + 1].sequence_number
           /\ \A j \in 1..(Len(val) - 1) :
                 unwrap(val[j].event_index) < unwrap(val[j + 1].event_index)
           /\ {unwrap(val[j].event_index) + 1 : j \in 1..Len(val)} = RecognizedAt(es)

C6_Witness ==
    /\ Returned
    /\ Len(EventsOf(transaction)) = 2
    /\ RecognizedAt(EventsOf(transaction)) = {2}
    /\ Len(result.val) = 1
    /\ result.val[1].event_index = Some(1)

(* -------------------------------- C7 ---------------------------------- *)

\* C7: from_address and to_address follow the table of variants: mint, burn,
\* mutate and withdraw give the canonical event address and no to_address;
\* deposit gives no from_address and the canonical event address, the record's
\* event_account_address, as to_address; offer, cancel-offer and claim give the
\* canonical event address and the recipient the event declares.
C7_AddressesFollowVariant ==
    Returned =>
        \A j \in 1..Len(result.val) :
            LET a == result.val[j]
                e == Origin(a)
                address == standardize_address(unwrap(e.key).account_address)
            IN CASE VariantAt(a) \in {"MintTokenEvent", "BurnTokenEvent",
                                      "MutateTokenPropertyMapEvent", "WithdrawTokenEvent"} ->
                      a.from_address = Some(address) /\ a.to_address = None
                 [] VariantAt(a) = "DepositTokenEvent" ->
                      /\ a.from_address = None
                      /\ a.to_address = Some(address)
                      /\ a.to_address = Some(a.event_account_address)
                 [] OTHER ->
                      /\ a.from_address = Some(address)
                      /\ a.to_address = Some(get_to_address(e.data))

C7_Witness ==
    /\ Returned
    /\ Len(result.val) = 2
    /\ VariantAt(result.val[1]) = "DepositTokenEvent"
    /\ unwrap(Origin(result.val[1]).key).account_address = AddrBare
    /\ result.val[1].to_address = Some(standardize_address(AddrBare))
    /\ VariantAt(result.val[2]) = "ClaimTokenEvent"
    /\ result.val[2].to_address # None

(* -------------------------------- C8 ---------------------------------- *)

\* C8: property_version and token_amount follow the table of variants: mint
\* gives version zero and the event amount; mutate gives the version of the
\* event's new_id and amount zero; every other variant gives the version of
\* the event's token id and the event amount.
C8_VersionAndAmountFollowVariant ==
    Returned =>
        \A j \in 1..Len(result.val) :
            LET a == result.val[j]
                data == Origin(a).data
            IN CASE VariantAt(a) = "MintTokenEvent" ->
                      a.property_version = 0 /\ a.token_amount = data.amount
                 [] VariantAt(a) = "MutateTokenPropertyMapEvent" ->
                      /\ a.property_version = data.new_id.property_version
                      /\ a.token_amount = 0
                 [] VariantAt(a) \in {"BurnTokenEvent", "WithdrawTokenEvent",
                                      "DepositTokenEvent"} ->
                      /\ a.property_version = data.id.property_version
                      /\ a.token_amount = data.amount
                 [] OTHER ->
                      /\ a.property_version = data.token_id.property_version
                      /\ a.token_amount = data.amount

C8_Witness ==
    /\ Returned
    /\ Len(result.val) = 2
    /\ VariantAt(result.val[1]) = "MutateTokenPropertyMapEvent"
    /\ result.val[1].property_version = 2
    /\ result.val[1].token_amount = 0
    /\ VariantAt(result.val[2]) = "MintTokenEvent"
    /\ result.val[2].property_version = 0
    /\ result.val[2].token_amount = 5

(* -------------------------------- C9 ---------------------------------- *)

\* C9: every Activity has the type tag of its event as transfer_type, character
\* for character, and neither coin_type nor coin_amount.
C9_TransferTypeVerbatimNoCoin ==
    Returned =>
        \A j \in 1..Len(result.val) :
            /\ result.val[j].transfer_type = Origin(result.val[j]).type_str
            /\ result.val[j].coin_type = None
            /\ result.val[j].coin_amount = None

C9_Witness ==
    /\ Returned
    /\ Len(result.val) = 2
    /\ result.val[1].transfer_type = OfferTag
    /\ result.val[2].transfer_type = DepositTag
    /\ result.val[2].coin_type = None

(* -------------------------------- C10 --------------------------------- *)

NoSharedKey ==
    \A i, j \in 1..Len(output) : i # j => KeyOf(output[i]) # KeyOf(output[j])

\* no two recognized events of the transaction have the same canonical
\* address, creation number and sequence number
DistinctEventKeys(txn) ==
    IsUser(txn) =>
        \A i, j \in RecognizedAt(EventsOf(txn)) :
            /\ i # j
            /\ EventsOf(txn)[i].key # None
            /\ EventsOf(txn)[j].key # None
            => CanonicalKey(EventsOf(txn)[i]) # CanonicalKey(EventsOf(txn)[j])

\* C10 as stated: no two Activities of the output, of one transaction or of
\* several transactions of distinct versions, have the same key tuple.
C10_NoSharedKey == NoSharedKey

\* C10 as amended: provided no normalized transaction holds two recognized
\* events with the same canonical account address, creation number and
\* sequence number, no two Activities of the output of a stream of
\* transactions of distinct versions have the same key tuple.
C10_NoSharedKeyOnDistinctEvents ==
    (\A k \in 1..Len(processed) : DistinctEventKeys(processed[k])) => NoSharedKey

C10_Witness ==
    /\ Len(output) = 2
    /\ Len(processed) = 2
    /\ output[1].transaction_version # output[2].transaction_version
    /\ output[1].event_account_address = output[2].event_account_address
    /\ output[1].event_creation_number = output[2].event_creation_number
    /\ output[1].event_sequence_number = output[2].event_sequence_number

====
